---- MODULE Spec2Model ----
(***************************************************************************)
(* State-machine model of src/src/irda.c: the IrDA socket wrapper          *)
(* (irda_socket_open, _close, _set_timeout, _discover, _connect_name,      *)
(* _connect_lsap, _available, _read, _write).  One caller drives one       *)
(* handle; the operating system's answers are nondeterministic inputs.     *)
(* Straight-line handlers are one action each; the three handlers with a   *)
(* loop (discover, read, write) advance one OS call per step under pc.     *)
(***************************************************************************)
EXTENDS Integers, Sequences, FiniteSets, TLC

\* ---------------------------------------------------------------- bounds
\* Largest buffer size handed to read and write.  Sizes and byte counts
\* stay far below INT_MAX, where the conversion of the unsigned nbytes to
\* the int return value keeps the value.
MaxSize == 3
\* Number of sends reporting 0 bytes that the model lets one write see.
MaxStall == 2

\* ------------------------------------------------------ program constants
DISCOVER_MAX_DEVICES == 16
DISCOVER_MAX_RETRIES == 4
\* Length of the service-name field written by strncpy/memset/snprintf.
SERVICE_NAME_LEN == 25
\* Width of the selector field sir_lsap_sel of struct sockaddr_irda
\* (<linux/irda.h>: __u8 sir_lsap_sel), the target of the assignment on
\* line 338.
LSAP_SEL_BITS == 8

Platforms == {"posix", "win32"}

\* Descriptors socket() may return, and what a read of freed memory may show
\* besides the stale contents.
Fds == {3}
Garbage == [fd |-> 9, timeout |-> 0]
\* Values given to set_timeout (ms; negative: no limit).
Timeouts == {-5, -1, 0, 1500}
\* Time a readiness wait may take before the descriptor becomes readable (ms).
ElapsedChoices == {0, 1000}

Min(a, b) == IF a < b THEN a ELSE b

\* ----------------------------------------------------------------- state
VARIABLES
    platform,   \* "win32" when built with _WIN32, else "posix"
    out,        \* the caller's handle variable: "NULL" or "ptr"
    mem,        \* the struct irda allocation: "none", "live", "freed"
    dev,        \* contents of struct irda: [fd, timeout]
    fdOpen,     \* whether the OS descriptor dev.fd is open
    pc,         \* position of the call in progress; "returned" when it has
                \* returned, "idle" between calls
    op,         \* the operation in progress or last returned
    arg,        \* its device argument: "NULL" or "ptr"
    dangling,   \* device pointed at freed memory when the call started
    cur,        \* what the call reads through device: [fd, timeout]
    rc,         \* return value of the last returned call
    trace,      \* expression logged by TRACE in this call, "" if none
    oslog,      \* OS calls issued by this call, in order
    mallocs,    \* malloc calls that succeeded in this call
    frees,      \* free calls issued by this call
    n,          \* discover: retry counter
    i,          \* discover: callback loop index
    list,       \* discover: device list the OS returned
    callback,   \* discover: whether a callback was supplied
    cblog,      \* discover: callback invocations, in order
    size,       \* read/write: size argument
    nbytes,     \* read/write: bytes transferred so far
    tv,         \* read: struct timeval handed to select
    waited,     \* read: total time spent in select (ms)
    inN,        \* read: bytes the peer delivers during this call
    inEof,      \* read: whether the peer closes after delivering them
    cargs,      \* arguments of the call: connect's address, name and
                \* lsap, set_timeout's timeout
    peer        \* connect: the peer address structure passed to connect

handleVars == <<out, mem, dev, fdOpen>>
callVars == <<pc, op, arg, dangling, cur, rc, trace, oslog, mallocs, frees>>
discVars == <<n, i, list, callback, cblog>>
ioVars == <<size, nbytes, tv, waited, inN, inEof>>
vars == <<platform, out, mem, dev, fdOpen, pc, op, arg, dangling, cur, rc,
          trace, oslog, mallocs, frees, n, i, list, callback, cblog, size,
          nbytes, tv, waited, inN, inEof, cargs, peer>>
connVars == <<cargs, peer>>

\* One OS call: which call, on which descriptor, with which arguments
\* (off/len: buffer offset and length; tmo: timeout in ms, -1 for none)
\* and its result.
Ev(c, f, o, l, t, r, e) ==
    [call |-> c, fd |-> f, off |-> o, len |-> l, tmo |-> t, res |-> r, err |-> e]

NoDev == [fd |-> -1, timeout |-> 0]
ZeroTv == [sec |-> 0, usec |-> 0]
ZeroName == [j \in 1..SERVICE_NAME_LEN |-> 0]
ZeroU32 == [hi |-> 0, lo |-> 0]
NoName == [present |-> FALSE, chars |-> <<>>]
NoArgs == [address |-> ZeroU32, name |-> NoName, lsap |-> 0, timeout |-> 0]
NoPeer == [family |-> "none", deviceID |-> <<0, 0, 0, 0>>, addr |-> ZeroU32,
           lsap_sel |-> 0, name |-> ZeroName]

\* Arguments the caller can pass as device: NULL, or the pointer it got
\* from open (which it still holds after close).
Args == {"NULL"} \cup (IF out = "ptr" THEN {"ptr"} ELSE {})

\* What a call reads through device: the struct's contents while it is
\* allocated; after free, the stale contents or anything else.
Seen ==
    IF mem = "live" THEN {dev}
    ELSE {dev, Garbage}

DiscIdle ==
    /\ n' = 0 /\ i' = 0 /\ list' = <<>> /\ callback' = FALSE /\ cblog' = <<>>
IoIdle ==
    /\ size' = 0 /\ nbytes' = 0 /\ tv' = ZeroTv /\ waited' = 0
    /\ inN' = 0 /\ inEof' = FALSE
ConnIdle == peer' = NoPeer /\ cargs' = NoArgs

\* The call returns r, having logged t and issued the OS calls log.
Return(o, a, c, r, t, log) ==
    /\ pc' = "returned" /\ op' = o /\ arg' = a
    /\ dangling' = (a = "ptr" /\ mem # "live")
    /\ cur' = c /\ rc' = r /\ trace' = t /\ oslog' = log

\* Variant: the missing handle is reported as success.
NullReturnSuccess(o) ==
    /\ Return(o, "NULL", NoDev, 0, "", <<>>)
    /\ mallocs' = 0 /\ frees' = 0
    /\ DiscIdle /\ IoIdle /\ ConnIdle
    /\ UNCHANGED handleVars
\* A call with device == NULL: return -1 at once.
NullReturn(o) ==
    /\ Return(o, "NULL", NoDev, -1, "", <<>>)
    /\ mallocs' = 0 /\ frees' = 0
    /\ DiscIdle /\ IoIdle /\ ConnIdle
    /\ UNCHANGED handleVars

Init ==
    /\ platform \in Platforms
    /\ out = "NULL" /\ mem = "none" /\ dev = NoDev /\ fdOpen = FALSE
    /\ pc = "idle" /\ op = "none" /\ arg = "NULL" /\ dangling = FALSE
    /\ cur = NoDev /\ rc = 0 /\ trace = "" /\ oslog = <<>>
    /\ mallocs = 0 /\ frees = 0
    /\ n = 0 /\ i = 0 /\ list = <<>> /\ callback = FALSE /\ cblog = <<>>
    /\ size = 0 /\ nbytes = 0 /\ tv = ZeroTv /\ waited = 0
    /\ inN = 0 /\ inEof = FALSE
    /\ peer = NoPeer /\ cargs = NoArgs

\* The caller (outside this file) has the return value and the call's
\* frame is gone.
CallerContinues ==
    /\ pc = "returned"
    /\ pc' = "idle" /\ op' = "none" /\ arg' = "NULL" /\ dangling' = FALSE
    /\ cur' = NoDev /\ rc' = 0 /\ trace' = "" /\ oslog' = <<>>
    /\ mallocs' = 0 /\ frees' = 0
    /\ DiscIdle /\ IoIdle /\ ConnIdle
    /\ UNCHANGED <<platform, handleVars>>

\* ------------------------------------------------------- irda_socket_open
\* Variant: the handle is not released when socket() fails.
OpenSocketFailedLeak ==
    /\ Return("open", "NULL", [fd |-> -1, timeout |-> -1], -1, "socket",
              <<Ev("socket", -1, 0, 0, -1, -1, "EIO")>>)
    /\ mallocs' = 1 /\ frees' = 0
    /\ UNCHANGED handleVars
\* socket() failed: TRACE, free (device), return -1 (lines 152-154).
OpenSocketFailed ==
    /\ Return("open", "NULL", [fd |-> -1, timeout |-> -1], -1, "socket",
              <<Ev("socket", -1, 0, 0, -1, -1, "EIO")>>)
    /\ mallocs' = 1 /\ frees' = 1
    /\ UNCHANGED handleVars

\* slot: whether out is NULL; mallocOk: whether malloc returns memory;
\* sock: what socket() returns (-1: INVALID_SOCKET / -1).
OpenBody(slotNull, mallocOk, sock) ==
    IF slotNull THEN
        /\ Return("open", "NULL", NoDev, -1, "", <<>>)
        /\ mallocs' = 0 /\ frees' = 0
        /\ UNCHANGED handleVars
    ELSE IF ~mallocOk THEN
        /\ Return("open", "NULL", NoDev, -1, "malloc", <<>>)
        /\ mallocs' = 0 /\ frees' = 0
        /\ UNCHANGED handleVars
    ELSE IF sock = -1 THEN
        OpenSocketFailed
    ELSE
        /\ Return("open", "NULL", [fd |-> sock, timeout |-> -1], 0, "",
                  <<Ev("socket", sock, 0, 0, -1, sock, "")>>)
        /\ mallocs' = 1 /\ frees' = 0
        /\ out' = "ptr" /\ mem' = "live"
        /\ dev' = [fd |-> sock, timeout |-> -1]
        /\ fdOpen' = TRUE

Open ==
    /\ pc = "idle"
    /\ mem # "live"
    /\ \E slotNull \in BOOLEAN, mallocOk \in BOOLEAN, sock \in Fds \cup {-1} :
           OpenBody(slotNull, mallocOk, sock)
    /\ DiscIdle /\ IoIdle /\ ConnIdle
    /\ UNCHANGED platform

\* ------------------------------------------------------ irda_socket_close
CloseName == IF platform = "win32" THEN "closesocket" ELSE "close"

\* Variant: the status follows the shutdown instead of the release.
CloseStatusOfShutdown(shutRes, closeRes) ==
    IF shutRes # 0 THEN -1 ELSE 0
\* Status of close from the results of shutdown and of the descriptor
\* release (lines 170-187).
CloseStatus(shutRes, closeRes) ==
    IF closeRes # 0 THEN -1 ELSE 0

Close ==
    /\ pc = "idle"
    /\ \E a \in Args :
        IF a = "NULL" THEN NullReturn("close")
        ELSE \E c \in Seen, shutRes \in {0, -1}, closeRes \in {0, -1} :
            /\ Return("close", a, c, CloseStatus(shutRes, closeRes),
                      IF closeRes # 0 THEN CloseName ELSE "",
                      <<Ev("shutdown", c.fd, 0, 0, -1, shutRes,
                           IF shutRes # 0 THEN "EIO" ELSE ""),
                        Ev(CloseName, c.fd, 0, 0, -1, closeRes,
                           IF closeRes # 0 THEN "EIO" ELSE "")>>)
            /\ mallocs' = 0 /\ frees' = 1
            /\ mem' = "freed"
            \* a failed release leaves the descriptor open or closed
            /\ fdOpen' \in (IF c.fd # dev.fd THEN {fdOpen}
                            ELSE IF closeRes = 0 THEN {FALSE}
                            ELSE {fdOpen, FALSE})
            /\ UNCHANGED <<out, dev>>
            /\ DiscIdle /\ IoIdle /\ ConnIdle
    /\ UNCHANGED platform

\* ------------------------------------------------ irda_socket_set_timeout
\* Variant: negative values are normalised to -1.
StoredTimeoutClamped(t) == IF t < 0 THEN -1 ELSE t
\* device->timeout = timeout (line 197)
StoredTimeout(t) == t

SetTimeout ==
    /\ pc = "idle"
    /\ \E a \in Args :
        IF a = "NULL" THEN NullReturn("set_timeout")
        ELSE \E c \in Seen, t \in Timeouts :
            /\ Return("set_timeout", a, c, 0, "", <<>>)
            /\ mallocs' = 0 /\ frees' = 0
            /\ dev' = [dev EXCEPT !.timeout = StoredTimeout(t)]
            /\ UNCHANGED <<out, mem, fdOpen>>
            /\ DiscIdle /\ IoIdle
            /\ peer' = NoPeer /\ cargs' = [NoArgs EXCEPT !.timeout = t]
    /\ UNCHANGED platform

\* --------------------------------------------------- irda_socket_discover
\* Unsigned 32-bit values are kept as two 16-bit halves.
U32(b0, b1, b2, b3) == [hi |-> b0 * 256 + b1, lo |-> b2 * 256 + b3]

\* Raw bytes of the k-th device the OS reports: device ID, hint bytes,
\* character set and name.  Entries differ from one another, and the
\* first ID byte is >= 128 for some of them.
RawId(k) == <<(k * 83) % 256, (k * 7) % 256, (255 - k) % 256, k % 256>>
RawEntry(k) ==
    [id |-> RawId(k),
     daddr |-> U32(RawId(k)[1], RawId(k)[2], RawId(k)[3], RawId(k)[4]),
     h0 |-> (k * 37) % 256, h1 |-> (200 + k) % 256,
     charset |-> k % 3, name |-> <<65 + k>>]
\* A device list of m entries as the OS fills it in (numDevice / len = m).
DeviceList(m) == [j \in 1..m |-> RawEntry(j)]

\* Variant: the four bytes are assembled least significant first.
AssembleLittleEndian(e) == U32(e.id[4], e.id[3], e.id[2], e.id[1])
\* address argument of the callback (lines 256-259 / 272).  On Windows
\* each ID byte is promoted to int and shifted; for a first byte >= 128 the
\* shift by 24 leaves the range of int, and the compilers that target
\* Windows wrap it to the bit pattern whose conversion to unsigned int is
\* b0 * 2^24.  On Linux the entry carries the ID as the one 32-bit field
\* daddr, which is passed on as it is; id names that number's four bytes,
\* most significant first.
AssembleAddress(e) == U32(e.id[1], e.id[2], e.id[3], e.id[4])
CallbackAddress(e) ==
    IF platform = "win32" THEN AssembleAddress(e) ELSE e.daddr
\* hints argument of the callback (lines 260-261 / 270-271).
CallbackHints(e) == e.h0 * 256 + e.h1
CallbackArgs(e) ==
    [address |-> CallbackAddress(e), name |-> e.name,
     charset |-> e.charset, hints |-> CallbackHints(e)]

\* errno != EAGAIN / WSAGetLastError() != WSAEWOULDBLOCK
WouldBlockName == IF platform = "win32" THEN "WSAEWOULDBLOCK" ELSE "EAGAIN"
\* Variant: every failure is retried.
IsFatalNever(err) == FALSE
IsFatal(err) == err # WouldBlockName
\* Variant: one retry too many.
RetriesExhaustedLate(k) == k > DISCOVER_MAX_RETRIES
\* n >= DISCOVER_MAX_RETRIES
RetriesExhausted(k) == k >= DISCOVER_MAX_RETRIES
\* Variant: the retry counter is never advanced.
NextRetryStuck(k) == k
\* n++ (line 244)
NextRetry(k) == k + 1
\* Variant: the list is walked from its end.
EntryIndexReversed(k, len) == len - k
\* Index of the entry handed to the i-th callback invocation (i from 0).
EntryIndex(k, len) == k + 1

DiscoverCall ==
    /\ pc = "idle"
    /\ \E a \in Args :
        IF a = "NULL" THEN NullReturn("discover")
        ELSE \E c \in Seen, cb \in BOOLEAN :
            /\ pc' = "discover_query" /\ op' = "discover" /\ arg' = a
            /\ dangling' = (mem # "live")
            /\ cur' = c /\ rc' = 0 /\ trace' = "" /\ oslog' = <<>>
            /\ mallocs' = 0 /\ frees' = 0
            /\ n' = 0 /\ i' = 0 /\ list' = <<>> /\ callback' = cb
            /\ cblog' = <<>>
            /\ IoIdle /\ ConnIdle
            /\ UNCHANGED handleVars
    /\ UNCHANGED platform

\* One evaluation of the while condition on line 231 and, when the query
\* failed, of the loop body up to the sleep.
DiscoverQuery ==
    /\ pc = "discover_query"
    /\ \/ \E m \in 0..DISCOVER_MAX_DEVICES :
            /\ oslog' = Append(oslog, Ev("getsockopt", cur.fd, 0, 0, -1, 0, ""))
            /\ list' = DeviceList(m)
            /\ IF callback
                 THEN pc' = "discover_callback" /\ UNCHANGED rc
                 ELSE pc' = "returned" /\ rc' = 0
            /\ UNCHANGED <<n, trace>>
       \/ \E e \in {WouldBlockName, "EIO"} :
            /\ oslog' = Append(oslog, Ev("getsockopt", cur.fd, 0, 0, -1, -1, e))
            /\ IF IsFatal(e) THEN
                   /\ pc' = "returned" /\ rc' = -1 /\ trace' = "getsockopt"
                   /\ UNCHANGED n
               ELSE IF RetriesExhausted(n) THEN
                   /\ pc' = "returned" /\ rc' = 0
                   /\ UNCHANGED <<n, trace>>
               ELSE
                   /\ pc' = "discover_sleep" /\ n' = NextRetry(n)
                   /\ UNCHANGED <<rc, trace>>
            /\ UNCHANGED list
    /\ UNCHANGED <<platform, handleVars, op, arg, dangling, cur, mallocs,
                   frees, i, callback, cblog, ioVars, connVars>>

\* Sleep (1000) / sleep (1), then back to the while condition.
DiscoverSleep ==
    /\ pc = "discover_sleep"
    /\ oslog' = Append(oslog, Ev("sleep", -1, 0, 0, 1000, 0, ""))
    /\ pc' = "discover_query"
    /\ UNCHANGED <<platform, handleVars, op, arg, dangling, cur, rc, trace,
                   mallocs, frees, discVars, ioVars, connVars>>

\* One iteration of the for loop on lines 255 / 269, or its exit.
DiscoverCallback ==
    /\ pc = "discover_callback"
    /\ IF i < Len(list) THEN
           /\ cblog' = Append(cblog,
                              CallbackArgs(list[EntryIndex(i, Len(list))]))
           /\ i' = i + 1
           /\ UNCHANGED <<pc, rc>>
       ELSE
           /\ pc' = "returned" /\ rc' = 0
           /\ UNCHANGED <<i, cblog>>
    /\ UNCHANGED <<platform, handleVars, op, arg, dangling, cur, trace, oslog,
                   mallocs, frees, n, list, callback, ioVars, connVars>>

\* -------------------------------- irda_socket_connect_name / _connect_lsap
\* Device addresses the caller passes (32-bit, as two 16-bit halves): some
\* of its own making, and those a discover callback has handed to it.
DiscoveredAddrs ==
    {CallbackAddress(RawEntry(k)) : k \in 1..DISCOVER_MAX_DEVICES}
Addrs == {U32(0, 0, 0, 0), U32(18, 52, 86, 120), U32(255, 0, 128, 1)}
         \cup DiscoveredAddrs
\* Service-access-point numbers the caller passes (unsigned int).
Lsaps == {0, 1, 10, 112, 255, 256, 300}
\* Service names the caller passes: absent, or a string of the given length.
NameLens == {0, 3, 24, 25, 26}
NameOfLen(len) == [j \in 1..len |-> 97 + (j % 26)]
Names == {NoName}
         \cup {[present |-> TRUE, chars |-> NameOfLen(len)] : len \in NameLens}

\* Variant: the address is split least significant byte first.
SplitLittleEndian(a) ==
    <<a.lo % 256, a.lo \div 256, a.hi % 256, a.hi \div 256>>
\* (address >> 24) & 0xFF, (address >> 16) & 0xFF, (address >> 8) & 0xFF,
\* address & 0xFF
SplitAddress(a) ==
    <<a.hi \div 256, a.hi % 256, a.lo \div 256, a.lo % 256>>

\* strncpy (dst, src, 25) into the zeroed field: the first 25 characters
\* of src, padded with zero bytes when src is shorter.
Strncpy(src) ==
    [j \in 1..SERVICE_NAME_LEN |-> IF j <= Len(src) THEN src[j] ELSE 0]
ServiceName(name) ==
    IF name.present THEN Strncpy(name.chars) ELSE ZeroName

\* Decimal digits of an unsigned number, as character codes ("%u").
RECURSIVE Decimal(_)
Decimal(k) ==
    IF k < 10 THEN <<48 + k>> ELSE Append(Decimal(k \div 10), 48 + (k % 10))
\* "LSAP-SEL"
LsapPrefix == <<76, 83, 65, 80, 45, 83, 69, 76>>
\* snprintf (dst, 25, "LSAP-SEL%u", lsap) into the zeroed field: at most
\* 24 characters and a terminator.
Snprintf(str) ==
    [j \in 1..SERVICE_NAME_LEN |->
        IF j <= Len(str) /\ j < SERVICE_NAME_LEN THEN str[j] ELSE 0]
LsapName(lsap) == Snprintf(LsapPrefix \o Decimal(lsap))

\* Variant: the selector is cut to 7 bits.
LsapSelSevenBits(lsap) == lsap % 128
\* peer.sir_lsap_sel = lsap: conversion of the unsigned int to the field.
LsapSel(lsap) == lsap % (2 ^ LSAP_SEL_BITS)

PeerByName(address, name) ==
    IF platform = "win32"
    THEN [family |-> "AF_IRDA", deviceID |-> SplitAddress(address),
          addr |-> ZeroU32, lsap_sel |-> 0, name |-> ServiceName(name)]
    ELSE [family |-> "AF_IRDA", deviceID |-> <<0, 0, 0, 0>>,
          addr |-> address, lsap_sel |-> 0, name |-> ServiceName(name)]

PeerByLsap(address, lsap) ==
    IF platform = "win32"
    THEN [family |-> "AF_IRDA", deviceID |-> SplitAddress(address),
          addr |-> ZeroU32, lsap_sel |-> 0, name |-> LsapName(lsap)]
    ELSE [family |-> "AF_IRDA", deviceID |-> <<0, 0, 0, 0>>,
          addr |-> address, lsap_sel |-> LsapSel(lsap), name |-> ZeroName]

\* connect (device->fd, &peer, sizeof (peer)) and the return.
Connect(o, a, c, args, p, res) ==
    /\ Return(o, a, c, IF res # 0 THEN -1 ELSE 0,
              IF res # 0 THEN "connect" ELSE "",
              <<Ev("connect", c.fd, 0, 0, -1, res,
                   IF res # 0 THEN "EIO" ELSE "")>>)
    /\ peer' = p /\ cargs' = args
    /\ mallocs' = 0 /\ frees' = 0
    /\ DiscIdle /\ IoIdle
    /\ UNCHANGED handleVars

ConnectName ==
    /\ pc = "idle"
    /\ \E a \in Args :
        IF a = "NULL" THEN NullReturn("connect_name")
        ELSE \E c \in Seen, address \in Addrs, name \in Names,
                res \in {0, -1} :
            Connect("connect_name", a, c,
                    [address |-> address, name |-> name, lsap |-> 0,
                     timeout |-> 0],
                    PeerByName(address, name), res)
    /\ UNCHANGED platform

ConnectLsap ==
    /\ pc = "idle"
    /\ \E a \in Args :
        IF a = "NULL" THEN NullReturn("connect_lsap")
        ELSE \E c \in Seen, address \in Addrs, lsap \in Lsaps,
                res \in {0, -1} :
            Connect("connect_lsap", a, c,
                    [address |-> address, name |-> NoName, lsap |-> lsap,
                     timeout |-> 0],
                    PeerByLsap(address, lsap), res)
    /\ UNCHANGED platform

\* -------------------------------------------------- irda_socket_available
AvailableName == IF platform = "win32" THEN "ioctlsocket" ELSE "ioctl"

Available ==
    /\ pc = "idle"
    /\ \E a \in Args :
        IF a = "NULL" THEN NullReturn("available")
        ELSE \E c \in Seen, bytes \in 0..MaxSize, res \in {0, -1} :
            /\ Return("available", a, c, IF res # 0 THEN -1 ELSE bytes,
                      IF res # 0 THEN AvailableName ELSE "",
                      <<Ev(AvailableName, c.fd, 0, 0, -1, res,
                           IF res # 0 THEN "EIO" ELSE "")>>)
            /\ mallocs' = 0 /\ frees' = 0
            /\ DiscIdle /\ IoIdle /\ ConnIdle
            /\ UNCHANGED handleVars
    /\ UNCHANGED platform

\* ------------------------------------------------------- irda_socket_read
\* struct timeval from the timeout in ms (lines 379-383).
TimevalOf(t) ==
    IF t >= 0 THEN [sec |-> t \div 1000, usec |-> (t % 1000) * 1000]
    ELSE ZeroTv
\* The time a struct timeval stands for, in ms.
TvMs(t) == t.sec * 1000 + t.usec \div 1000
\* device->timeout >= 0 ? &tv : NULL, as the wait's limit in ms (-1: none).
SelectLimit == IF cur.timeout >= 0 THEN TvMs(tv) ELSE -1
\* tv after a select that took e ms: Linux select writes the time left
\* into the timeval it was given; Winsock select leaves it alone.
TvAfterSelect(e) ==
    IF platform = "posix" /\ cur.timeout >= 0
    THEN TimevalOf(TvMs(tv) - e)
    ELSE tv

\* Variant: every recv asks for the whole buffer.
RecvRequestWhole(sz, nb) == sz
\* size - nbytes (line 399)
RecvRequest(sz, nb) == sz - nb
\* nbytes += n (line 407)
RecvAccumulate(nb, k) == nb + k
\* Variant: a failure reports the bytes read so far.
ReadErrorPartial(nb) == nb
\* return -1 after a failed select or recv (lines 394, 402)
ReadError(nb) == -1
\* Variant: the count is dropped.
ReadResultZero(nb) == 0
\* return nbytes (line 410)
ReadResult(nb) == nb

ReadCall ==
    /\ pc = "idle"
    /\ \E a \in Args :
        IF a = "NULL" THEN NullReturn("read")
        ELSE \E c \in Seen, sz \in 0..MaxSize, pn \in 0..MaxSize,
                pe \in BOOLEAN :
            /\ pc' = "read_select" /\ op' = "read" /\ arg' = a
            /\ dangling' = (mem # "live")
            /\ cur' = c /\ rc' = 0 /\ trace' = "" /\ oslog' = <<>>
            /\ mallocs' = 0 /\ frees' = 0
            /\ size' = sz /\ nbytes' = 0 /\ tv' = TimevalOf(c.timeout)
            /\ waited' = 0 /\ inN' = pn /\ inEof' = pe
            /\ DiscIdle /\ ConnIdle
            /\ UNCHANGED handleVars
    /\ UNCHANGED platform

\* The while condition on line 390 and, inside the loop, the select.
ReadSelect ==
    /\ pc = "read_select"
    /\ IF ~(nbytes < size) THEN
           /\ pc' = "returned" /\ rc' = ReadResult(nbytes)
           /\ UNCHANGED <<trace, oslog, tv, waited>>
       ELSE
           \/ \* rc < 0
              /\ oslog' = Append(oslog,
                     Ev("select", cur.fd, 0, 0, SelectLimit, -1, "EIO"))
              /\ pc' = "returned" /\ rc' = ReadError(nbytes)
              /\ trace' = "select"
              /\ UNCHANGED <<tv, waited>>
           \/ \* rc == 0: nothing became readable within the limit
              /\ cur.timeout >= 0
              /\ oslog' = Append(oslog,
                     Ev("select", cur.fd, 0, 0, SelectLimit, 0, ""))
              /\ waited' = waited + TvMs(tv)
              /\ tv' = TvAfterSelect(TvMs(tv))
              /\ pc' = "returned" /\ rc' = ReadResult(nbytes)
              /\ UNCHANGED trace
           \/ \* rc > 0: data or end of stream is there after e ms
              /\ nbytes < inN \/ inEof
              /\ \E e \in ElapsedChoices :
                    /\ cur.timeout >= 0 => e <= TvMs(tv)
                    /\ waited' = waited + e
                    /\ tv' = TvAfterSelect(e)
              /\ oslog' = Append(oslog,
                     Ev("select", cur.fd, 0, 0, SelectLimit, 1, ""))
              /\ pc' = "read_recv"
              /\ UNCHANGED <<rc, trace>>
    /\ UNCHANGED <<platform, handleVars, op, arg, dangling, cur, mallocs,
                   frees, discVars, size, nbytes, inN, inEof, connVars>>

\* recv and the rest of the loop body (lines 399-407).
ReadRecv ==
    /\ pc = "read_recv"
    /\ \/ \* n < 0
          /\ oslog' = Append(oslog,
                 Ev("recv", cur.fd, nbytes, RecvRequest(size, nbytes), -1,
                    -1, "EIO"))
          /\ pc' = "returned" /\ rc' = ReadError(nbytes) /\ trace' = "recv"
          /\ UNCHANGED nbytes
       \/ \* n == 0: the peer has closed and everything was delivered
          /\ nbytes = inN /\ inEof
          /\ oslog' = Append(oslog,
                 Ev("recv", cur.fd, nbytes, RecvRequest(size, nbytes), -1,
                    0, ""))
          /\ pc' = "returned" /\ rc' = ReadResult(nbytes)
          /\ UNCHANGED <<nbytes, trace>>
       \/ \* n > 0: at most what was asked for and what the peer has sent
          \E k \in 1..Min(RecvRequest(size, nbytes), inN - nbytes) :
              /\ oslog' = Append(oslog,
                     Ev("recv", cur.fd, nbytes, RecvRequest(size, nbytes),
                        -1, k, ""))
              /\ nbytes' = RecvAccumulate(nbytes, k)
              /\ pc' = "read_select"
              /\ UNCHANGED <<rc, trace>>
    /\ UNCHANGED <<platform, handleVars, op, arg, dangling, cur, mallocs,
                   frees, discVars, size, tv, waited, inN, inEof, connVars>>

\* ------------------------------------------------------ irda_socket_write
\* size - nbytes (line 422)
SendRequest(sz, nb) == sz - nb
\* Variant: a failure reports the bytes written so far.
WriteErrorPartial(nb) == nb
\* return -1 after a failed send (line 425)
WriteError(nb) == -1
\* Sends of this call that reported 0 bytes.
Stalls == Cardinality({j \in 1..Len(oslog) : oslog[j].res = 0})

WriteCall ==
    /\ pc = "idle"
    /\ \E a \in Args :
        IF a = "NULL" THEN NullReturn("write")
        ELSE \E c \in Seen, sz \in 0..MaxSize :
            /\ pc' = "write_send" /\ op' = "write" /\ arg' = a
            /\ dangling' = (mem # "live")
            /\ cur' = c /\ rc' = 0 /\ trace' = "" /\ oslog' = <<>>
            /\ mallocs' = 0 /\ frees' = 0
            /\ size' = sz /\ nbytes' = 0
            /\ tv' = ZeroTv /\ waited' = 0 /\ inN' = 0 /\ inEof' = FALSE
            /\ DiscIdle /\ ConnIdle
            /\ UNCHANGED handleVars
    /\ UNCHANGED platform

\* The while condition on line 421 and one pass of the loop body.
WriteSend ==
    /\ pc = "write_send"
    /\ IF ~(nbytes < size) THEN
           /\ pc' = "returned" /\ rc' = nbytes
           /\ UNCHANGED <<trace, oslog, nbytes>>
       ELSE
           \/ \* n < 0
              /\ oslog' = Append(oslog,
                     Ev("send", cur.fd, nbytes, SendRequest(size, nbytes),
                        -1, -1, "EIO"))
              /\ pc' = "returned" /\ rc' = WriteError(nbytes)
              /\ trace' = "send"
              /\ UNCHANGED nbytes
           \/ \* n >= 0: at most what was asked for
              \E k \in 0..SendRequest(size, nbytes) :
                  /\ k = 0 => Stalls < MaxStall
                  /\ oslog' = Append(oslog,
                         Ev("send", cur.fd, nbytes,
                            SendRequest(size, nbytes), -1, k, ""))
                  /\ nbytes' = nbytes + k
                  /\ UNCHANGED <<pc, rc, trace>>
    /\ UNCHANGED <<platform, handleVars, op, arg, dangling, cur, mallocs,
                   frees, discVars, size, tv, waited, inN, inEof, connVars>>

Next ==
    \/ Open \/ Close \/ SetTimeout
    \/ DiscoverCall \/ DiscoverQuery \/ DiscoverSleep \/ DiscoverCallback
    \/ ConnectName \/ ConnectLsap \/ Available
    \/ ReadCall \/ ReadSelect \/ ReadRecv
    \/ WriteCall \/ WriteSend
    \/ CallerContinues

Spec == Init /\ [][Next]_vars

\* ============================================================ properties
\* The call in progress (or just returned) is operation o on the handle
\* while it is allocated.
LiveCall(o) == op = o /\ arg = "ptr" /\ ~dangling
\* Positions in oslog of the calls named c.
Calls(c) == {j \in 1..Len(oslog) : oslog[j].call = c}
\* Bytes transferred by the first k OS calls of this call.
RECURSIVE Transferred(_)
Transferred(k) ==
    IF k = 0 THEN 0
    ELSE Transferred(k - 1) + (IF oslog[k].res > 0 /\ oslog[k].call \in {"recv", "send"}
                               THEN oslog[k].res ELSE 0)
Last == oslog[Len(oslog)]

\* C1: after close(handle), every later operation on that handle returns
\* InvalidArgument (-1, nothing logged) and issues no OS call.
C1_ClosedHandleRejected ==
    dangling =>
        /\ oslog = <<>>
        /\ pc = "returned" => (rc = -1 /\ trace = "")

\* C2: close on a present handle issues one shutdown, then one descriptor
\* release, frees the handle once, and returns -1 exactly when the release
\* failed, whatever the shutdown did.
C2_CloseReleasesOnce ==
    (pc = "returned" /\ LiveCall("close")) =>
        /\ Len(oslog) = 2
        /\ oslog[1].call = "shutdown" /\ oslog[1].fd = dev.fd
        /\ oslog[2].call = CloseName /\ oslog[2].fd = dev.fd
        /\ frees = 1 /\ mem = "freed"
        /\ rc = (IF oslog[2].res = 0 THEN 0 ELSE -1)
        /\ (trace = CloseName) <=> (oslog[2].res # 0)
C2_Witness ==
    /\ pc = "returned" /\ LiveCall("close")
    /\ oslog[1].res # 0 /\ oslog[2].res = 0 /\ rc = 0

\* C3: when every enumeration query reports "would block", discover returns
\* 0 after DISCOVER_MAX_RETRIES + 1 queries and calls the callback 0 times.
AllWouldBlock ==
    \A j \in Calls("getsockopt") : oslog[j].err = WouldBlockName
C3_WouldBlockExhausted ==
    (pc = "returned" /\ LiveCall("discover") /\ AllWouldBlock) =>
        /\ rc = 0 /\ trace = ""
        /\ Cardinality(Calls("getsockopt")) = DISCOVER_MAX_RETRIES + 1
        /\ cblog = <<>>
C3_Witness ==
    /\ pc = "returned" /\ LiveCall("discover") /\ AllWouldBlock /\ callback
    /\ Cardinality(Calls("getsockopt")) = 5 /\ rc = 0

\* C4: after k <= 4 "would block" answers and a successful query with m
\* entries, discover with a callback calls it m times, once per entry in
\* index order, only after the successful query, and returns 0.
QuerySucceeded == \E j \in Calls("getsockopt") : oslog[j].res = 0
C4_CallbackPerEntryInOrder ==
    LiveCall("discover") =>
        /\ cblog # <<>> => (QuerySucceeded /\ Last.res = 0)
        /\ \A j \in 1..Len(cblog) :
              /\ j <= Len(list)
              /\ cblog[j].name = list[j].name
              /\ cblog[j].charset = list[j].charset
        /\ (pc = "returned" /\ callback /\ QuerySucceeded) =>
              /\ rc = 0
              /\ Len(cblog) = Len(list)
              /\ Len(list) <= DISCOVER_MAX_DEVICES
              /\ Cardinality(Calls("getsockopt")) <= DISCOVER_MAX_RETRIES + 1
C4_Witness ==
    /\ pc = "returned" /\ LiveCall("discover") /\ callback
    /\ Cardinality(Calls("getsockopt")) = 4 /\ QuerySucceeded
    /\ Len(list) = 2 /\ Len(cblog) = 2 /\ rc = 0

\* C5: a query failing with an error other than "would block" ends discover
\* at once with -1: it is the last OS call, and no callback is called.
FatalQueries ==
    {j \in Calls("getsockopt") :
        oslog[j].res # 0 /\ oslog[j].err # WouldBlockName}
C5_FatalQueryAborts ==
    (LiveCall("discover") /\ FatalQueries # {}) =>
        /\ FatalQueries = {Len(oslog)}
        /\ pc = "returned" /\ rc = -1 /\ trace = "getsockopt"
        /\ cblog = <<>>
C5_Witness ==
    /\ pc = "returned" /\ LiveCall("discover") /\ FatalQueries # {}
    /\ Cardinality(Calls("getsockopt")) = 3 /\ rc = -1

\* C6: a read that stops on a wait timing out or on a receive of 0 bytes
\* returns the sum of the bytes its earlier receives delivered; with
\* timeout -1 and a peer that sends N < max_size bytes and closes, N.
StoppedQuietly ==
    /\ oslog # <<>>
    /\ Last.res = 0
    /\ Last.call \in {"select", "recv"}
NoOsError == \A j \in 1..Len(oslog) : oslog[j].res >= 0
C6_ReadStopReturnsCount ==
    (pc = "returned" /\ LiveCall("read")) =>
        /\ StoppedQuietly =>
              (rc = Transferred(Len(oslog)) /\ rc >= 0 /\ trace = "")
        /\ (cur.timeout < 0 /\ inEof /\ inN < size /\ NoOsError) => rc = inN
C6_Witness ==
    /\ pc = "returned" /\ LiveCall("read")
    /\ cur.timeout = -1 /\ inEof /\ inN = 2 /\ size = 3
    /\ StoppedQuietly /\ Last.call = "recv" /\ rc = 2

\* C7: a failing wait or receive ends read with -1, also after bytes were
\* delivered, and is the last OS call of the read.
FailedCalls == {j \in 1..Len(oslog) : oslog[j].res < 0}
C7_ReadErrorAborts ==
    (LiveCall("read") /\ FailedCalls # {}) =>
        /\ FailedCalls = {Len(oslog)}
        /\ pc = "returned" /\ rc = -1
        /\ trace = Last.call
C7_Witness ==
    /\ pc = "returned" /\ LiveCall("read") /\ FailedCalls # {}
    /\ Last.call = "recv" /\ nbytes > 0 /\ rc = -1

\* C8: every send of a write is asked for the unsent remainder at the
\* first unsent byte; a write that returns yields size, after sends that
\* add up to size, or -1, never a partial count.
C8_WriteAllOrError ==
    LiveCall("write") =>
        /\ \A j \in 1..Len(oslog) :
              /\ oslog[j].call = "send"
              /\ oslog[j].off = Transferred(j - 1)
              /\ oslog[j].len = size - Transferred(j - 1)
        /\ pc = "returned" =>
              \/ /\ rc = size /\ trace = ""
                 /\ Transferred(Len(oslog)) = size
                 /\ FailedCalls = {}
              \/ /\ rc = -1 /\ trace = "send"
                 /\ FailedCalls = {Len(oslog)}
C8_Witness ==
    /\ pc = "returned" /\ LiveCall("write")
    /\ FailedCalls # {} /\ nbytes > 0 /\ nbytes < size /\ rc = -1

\* C9: with a timeout T >= 0 the time one read spends in readiness waits
\* is bounded by T, however many waits it performs.
C9_SingleDeadline ==
    (LiveCall("read") /\ cur.timeout >= 0) => waited <= cur.timeout

\* Device ID carried by a peer structure, most significant byte first.
PeerDeviceId(p) ==
    IF platform = "win32" THEN p.deviceID
    ELSE <<p.addr.hi \div 256, p.addr.hi % 256,
           p.addr.lo \div 256, p.addr.lo % 256>>
\* The four bytes of a 32-bit value, most significant first.
BigEndian(a) ==
    <<a.hi \div 256, a.hi % 256, a.lo \div 256, a.lo % 256>>
\* Value of a string of decimal digits given as character codes.
RECURSIVE DigitsValue(_)
DigitsValue(d) ==
    IF d = <<>> THEN 0
    ELSE 10 * DigitsValue(SubSeq(d, 1, Len(d) - 1)) + (d[Len(d)] - 48)
\* The field holds "LSAP-SEL", the decimal digits of k, and zero bytes.
IsLsapName(f, k) ==
    \E r \in 1..10 :
        /\ SubSeq(f, 1, 8) = <<76, 83, 65, 80, 45, 83, 69, 76>>
        /\ \A j \in 9..(8 + r) : f[j] \in 48..57
        /\ r > 1 => f[9] # 48
        /\ DigitsValue(SubSeq(f, 9, 8 + r)) = k
        /\ \A j \in (9 + r)..SERVICE_NAME_LEN : f[j] = 0
ConnectLsapReturned == pc = "returned" /\ LiveCall("connect_lsap")
ConnectOutcome ==
    /\ Len(oslog) = 1 /\ oslog[1].call = "connect" /\ oslog[1].fd = dev.fd
    /\ (rc = 0) <=> (oslog[1].res = 0)
    /\ PeerDeviceId(peer) = BigEndian(cargs.address)

\* C10 as stated: the peer structure of connect_lsap carries the big-endian
\* split of the address and a selector equal to the requested number (or
\* the name "LSAP-SEL<number>"), and the call succeeds iff connect does.
C10_SelectorIsRequestedNumber ==
    ConnectLsapReturned =>
        /\ ConnectOutcome
        /\ IF platform = "win32"
             THEN IsLsapName(peer.name, cargs.lsap)
             ELSE peer.lsap_sel = cargs.lsap
\* C10 amended: as above, but the native selector field is 8 bits wide and
\* holds the requested number modulo 256.
C10_SelectorIsNumberMod256 ==
    ConnectLsapReturned =>
        /\ ConnectOutcome
        /\ IF platform = "win32"
             THEN IsLsapName(peer.name, cargs.lsap)
             ELSE /\ peer.lsap_sel = cargs.lsap % 256
                  /\ peer.name = ZeroName
C10_Witness ==
    /\ ConnectLsapReturned /\ platform = "posix"
    /\ cargs.lsap = 300 /\ peer.lsap_sel = 44
    /\ cargs.address.hi >= 32768 /\ rc = 0

\* The field holds the first len characters of the string str and zero
\* bytes after them.
IsPrefixThenZeros(f, str, len) ==
    /\ len <= Len(str)
    /\ \A j \in 1..len : f[j] = str[j] /\ f[j] # 0
    /\ \A j \in (len + 1)..Len(f) : f[j] = 0
ConnectNameReturned == pc = "returned" /\ LiveCall("connect_name")

\* C11: the service-name field connect_by_name passes to the OS is 25
\* bytes including a terminator: a prefix of the name followed by zero
\* bytes, at least one of them; all zeros when no name is supplied.
C11_NameFieldTerminated ==
    ConnectNameReturned =>
        /\ Len(peer.name) = SERVICE_NAME_LEN
        /\ IF cargs.name.present
             THEN \E len \in 0..(SERVICE_NAME_LEN - 1) :
                     IsPrefixThenZeros(peer.name, cargs.name.chars, len)
             ELSE peer.name = ZeroName

\* C12: open succeeds with the slot holding a handle that owns a valid
\* descriptor and has timeout -1, or fails with no handle allocated, no
\* descriptor opened and the slot untouched; a failed socket() is followed
\* by the release of the handle, and without memory or without a slot no
\* socket is requested.
OpenReturned == pc = "returned" /\ op = "open"
SocketCalls == Calls("socket")
C12_OpenState ==
    OpenReturned =>
        IF rc = 0 THEN
            /\ out = "ptr" /\ mem = "live" /\ fdOpen
            /\ dev.fd \in Fds /\ dev.fd # -1 /\ dev.timeout = -1
            /\ mallocs = 1 /\ frees = 0
            /\ Len(oslog) = 1 /\ oslog[1].call = "socket"
            /\ oslog[1].res = dev.fd
        ELSE
            /\ rc = -1
            /\ mem # "live" /\ mallocs = frees
            /\ \A j \in SocketCalls : oslog[j].res = -1
            /\ trace # "socket" => (oslog = <<>> /\ mallocs = 0)
            /\ trace = "socket" => (SocketCalls = {1} /\ frees = 1)
C12_OpenFailureKeepsSlot ==
    (pc = "idle" /\ op' = "open" /\ rc' # 0) =>
        (out' = out /\ mem' = mem /\ dev' = dev /\ fdOpen' = fdOpen)
C12_OpenAllOrNothing ==
    [](C12_OpenState) /\ [][C12_OpenFailureKeepsSlot]_vars
C12_Witness ==
    /\ OpenReturned /\ rc = -1 /\ trace = "socket"
    /\ mallocs = 1 /\ frees = 1 /\ out = "ptr" /\ mem = "freed"

\* C13: on an open handle the timeout changes only in set_timeout, which
\* stores whatever value it is given and keeps the descriptor; every other
\* operation keeps both fields, so read works with the value last set
\* (-1 after open).
C13_Frame ==
    (mem = "live" /\ mem' = "live") =>
        /\ dev'.fd = dev.fd
        /\ dev'.timeout # dev.timeout => (pc = "idle" /\ op' = "set_timeout")
        /\ (pc = "idle" /\ op' = "set_timeout" /\ arg' = "ptr") =>
              (dev'.timeout = cargs'.timeout /\ rc' = 0 /\ oslog' = <<>>)
C13_ReadUsesStored ==
    LiveCall("read") =>
        /\ cur.timeout = dev.timeout
        /\ \A j \in Calls("select") :
              IF dev.timeout < 0 THEN oslog[j].tmo = -1
              ELSE oslog[j].tmo >= 0 /\ oslog[j].tmo <= dev.timeout
        /\ (oslog # <<>> /\ dev.timeout >= 0) => oslog[1].tmo = dev.timeout
C13_OpenSetsDefault ==
    (pc = "idle" /\ op' = "open" /\ rc' = 0) => dev'.timeout = -1
C13_TimeoutOnlySetBySetTimeout ==
    /\ [][C13_Frame /\ C13_OpenSetsDefault]_vars
    /\ [](C13_ReadUsesStored)
C13_Witness ==
    /\ LiveCall("read") /\ dev.timeout = 1500
    /\ Len(oslog) >= 3 /\ oslog[1].tmo = 1500 /\ oslog[3].call = "select"

\* C14: each operation taking a handle, called with a NULL handle, returns
\* -1 at once: no OS call, no wait, no callback, nothing released and the
\* handle state untouched.
HandleOps ==
    {"close", "set_timeout", "discover", "connect_name", "connect_lsap",
     "available", "read", "write"}
NullCall == op \in HandleOps /\ arg = "NULL"
C14_NullState ==
    NullCall =>
        /\ pc = "returned" /\ rc = -1 /\ trace = ""
        /\ oslog = <<>> /\ cblog = <<>> /\ waited = 0
        /\ mallocs = 0 /\ frees = 0 /\ peer = NoPeer
C14_NullStep ==
    (pc = "idle" /\ op' \in HandleOps /\ arg' = "NULL") =>
        UNCHANGED handleVars
C14_NullHandleFailsFast ==
    [](C14_NullState) /\ [][C14_NullStep]_vars
C14_Witness ==
    /\ NullCall /\ op = "discover" /\ pc = "returned" /\ rc = -1
    /\ mem = "live"

\* The kind of failure the call that just returned ran into, "none" if it
\* did not fail: a missing handle or output slot, no memory, or a failed
\* OS call (the one named by TRACE).
FailureKind ==
    IF pc # "returned" THEN "none"
    ELSE IF NullCall THEN "InvalidArgument"
    ELSE IF op = "open" /\ rc # 0 /\ trace = "" THEN "InvalidArgument"
    ELSE IF trace = "malloc" THEN "AllocationError"
    ELSE IF trace # "" THEN "SocketError"
    ELSE "none"
\* The status a call with a missing handle returns (line 167 and alike).
InvalidArgumentStatus == -1

\* C15: the returned status tells the three kinds of failure apart: the
\* status of InvalidArgument is returned for no AllocationError and no
\* SocketError.
C15_StatusIdentifiesFailure ==
    /\ FailureKind = "InvalidArgument" => rc = InvalidArgumentStatus
    /\ FailureKind \in {"AllocationError", "SocketError"} =>
          rc # InvalidArgumentStatus

\* C16: one discover issues at most 5 queries and at most 4 waits of one
\* second; a wait comes only directly after a query that reported "would
\* block" and is directly followed by a query; the fifth "would block"
\* ends the call without a wait.
IsWouldBlockQuery(e) ==
    e.call = "getsockopt" /\ e.res # 0 /\ e.err = WouldBlockName
C16_DiscoverBounded ==
    LiveCall("discover") =>
        /\ Cardinality(Calls("getsockopt")) <= DISCOVER_MAX_RETRIES + 1
        /\ Cardinality(Calls("sleep")) <= DISCOVER_MAX_RETRIES
        /\ \A j \in 1..Len(oslog) : oslog[j].call \in {"getsockopt", "sleep"}
        /\ \A j \in Calls("sleep") :
              /\ oslog[j].tmo = 1000
              /\ j > 1 /\ IsWouldBlockQuery(oslog[j - 1])
              /\ IF j < Len(oslog) THEN oslog[j + 1].call = "getsockopt"
                 ELSE pc = "discover_query"
        /\ pc = "discover_sleep" =>
              (oslog # <<>> /\ IsWouldBlockQuery(Last))
        /\ (Cardinality(Calls("getsockopt")) = DISCOVER_MAX_RETRIES + 1
            /\ IsWouldBlockQuery(Last)) => pc = "returned"
        /\ i <= Len(list) /\ Len(list) <= DISCOVER_MAX_DEVICES
C16_Witness ==
    /\ pc = "returned" /\ LiveCall("discover")
    /\ Cardinality(Calls("sleep")) = 4 /\ Len(oslog) = 9
    /\ QuerySucceeded

\* C17: within a read of size bytes the count stays within 0..size; each recv
\* is asked for exactly size - count (> 0) bytes at offset count; every pass
\* that does not end the call adds at least one byte, so at most size selects
\* and size recvs are issued; nothing is asked of the OS once count = size;
\* and a read of 0 bytes returns 0 without any select or recv.
ReadInProgress == op = "read" /\ arg = "ptr"
C17_ReadLoopInvariant ==
    ReadInProgress =>
        /\ 0 <= nbytes /\ nbytes <= size
        /\ nbytes = Transferred(Len(oslog))
        /\ \A j \in 1..Len(oslog) :
              /\ oslog[j].call \in {"select", "recv"}
              /\ Transferred(j - 1) < size
              /\ j < Len(oslog) => oslog[j].res >= 1
              /\ oslog[j].call = "recv" =>
                    /\ oslog[j].off = Transferred(j - 1)
                    /\ oslog[j].len = size - Transferred(j - 1)
                    /\ oslog[j].len > 0
                    /\ j > 1 /\ oslog[j - 1].call = "select"
        /\ Cardinality(Calls("select")) <= size
        /\ Cardinality(Calls("recv")) <= size
        /\ pc = "read_recv" => nbytes < size
        /\ (pc = "returned" /\ nbytes = size) => (rc = size /\ trace = "")
        /\ size = 0 => (oslog = <<>> /\ (pc = "returned" => rc = 0))
C17_Witness ==
    /\ ReadInProgress /\ pc = "returned"
    /\ size >= 2 /\ rc = size
    /\ Cardinality(Calls("select")) = size
    /\ Cardinality(Calls("recv")) = size

\* C18: a write of size bytes issues at most size sends, whatever the sends
\* report (an error, or a count from 0 up to the length requested).
WriteInProgress == op = "write" /\ arg = "ptr"
C18_WriteBoundedSends ==
    WriteInProgress => Cardinality(Calls("send")) <= size

\* C19: an address that discover hands to the callback for a device the OS
\* reports, passed unchanged to connect_name or connect_lsap, gives a peer
\* structure whose device ID is the one the OS reported, for every value
\* of the four ID bytes (a first byte >= 128 included).
ConnectReturned ==
    /\ pc = "returned" /\ arg = "ptr"
    /\ op \in {"connect_name", "connect_lsap"}
C19_DiscoverConnectRoundTrip ==
    ConnectReturned =>
        \A k \in 1..DISCOVER_MAX_DEVICES :
            cargs.address = CallbackArgs(RawEntry(k)).address =>
                PeerDeviceId(peer) = RawEntry(k).id
C19_Witness ==
    /\ ConnectReturned /\ op = "connect_lsap" /\ platform = "win32"
    /\ \E k \in 1..DISCOVER_MAX_DEVICES :
          /\ RawEntry(k).id[1] >= 128
          /\ cargs.address = CallbackArgs(RawEntry(k)).address
          /\ peer.deviceID = RawEntry(k).id

====
